---- MODULE Spec2Model ----
(***************************************************************************)
(* Model of the headless authentication core of armyknife-cli:             *)
(*   client.AuthenticateDeviceFlow / requestDeviceCode / pollForToken /    *)
(*   checkToken                      (src/unnamed/part_002, lines 1-181)   *)
(*   config.Config / Load / Save / IsAuthenticated                         *)
(*                                   (src/unnamed/part_002, lines 458-545) *)
(* Time is wall-clock time in whole seconds.  One CLI process runs the     *)
(* device flow to completion; every HTTP call is synchronous, so an action *)
(* is one blocking step of the flow (a call with its response, or one      *)
(* receive from the ticker channel).  Statements between two blocking      *)
(* points take no time: only waiting for a tick and waiting for a response *)
(* move the clock.                                                         *)
(***************************************************************************)
EXTENDS Integers, Sequences, FiniteSets, TLC

(***************************************************************************)
(* Bounds of the model.                                                    *)
(***************************************************************************)
MaxInterval == 6
MaxExpiresIn == 7
MaxDevLatency == 1
MaxCount == 3
\* one polling interval longer than the per-call timeout
LongInterval == 12
\* the time at which the commands of the command line run
CliClock == 100

(***************************************************************************)
(* Program constants.                                                      *)
(***************************************************************************)
\* http.Client{Timeout: 10 * time.Second}, in seconds
HTTPTimeout == 10
\* http.StatusOK
StatusOK == 200
\* Client.request: the first status that is no success
StatusMultipleChoices == 300

Max(a, b) == IF a >= b THEN a ELSE b

\* a counter of the observer, saturating at MaxCount
Inc(n) == IF n < MaxCount THEN n + 1 ELSE n

(***************************************************************************)
(* config.Config and its JSON form.  A JSON object is a function from the  *)
(* keys present in the text to their values.                               *)
(***************************************************************************)
\* the JSON text {}
EmptyObj == [k \in {} |-> ""]

DefaultAPIURL == "https://test.armyknifelabs.com/api/v1"

defaultConfig ==
    [APIURL |-> DefaultAPIURL, AccessToken |-> "", RefreshToken |-> "", TokenExpiry |-> ""]

ConfigKeys == {"api_url", "access_token", "refresh_token", "token_expiry"}

\* struct field behind each json tag of Config
ConfigField(c, k) ==
    CASE k = "api_url" -> c.APIURL
      [] k = "access_token" -> c.AccessToken
      [] k = "refresh_token" -> c.RefreshToken
      [] k = "token_expiry" -> c.TokenExpiry

\* json.MarshalIndent(c): api_url always, the omitempty fields only when non-empty
MarshalConfig(c) ==
    [k \in {"api_url"} \cup {x \in ConfigKeys \ {"api_url"} : ConfigField(c, x) /= ""}
        |-> ConfigField(c, k)]

JSONString(obj, k) == IF k \in DOMAIN obj THEN obj[k] ELSE ""

\* variant: the expiry is read from the key expires_at
UnmarshalConfigExpiresAt(obj) ==
    [APIURL |-> JSONString(obj, "api_url"),
     AccessToken |-> JSONString(obj, "access_token"),
     RefreshToken |-> JSONString(obj, "refresh_token"),
     TokenExpiry |-> JSONString(obj, "expires_at")]

\* json.Unmarshal(data, &cfg): absent keys leave the zero value
UnmarshalConfig(obj) ==
    [APIURL |-> JSONString(obj, "api_url"),
     AccessToken |-> JSONString(obj, "access_token"),
     RefreshToken |-> JSONString(obj, "refresh_token"),
     TokenExpiry |-> JSONString(obj, "token_expiry")]

\* the config file: absent, or the JSON object it holds, or text that does not parse
NoFile == [exists |-> FALSE, json |-> TRUE, obj |-> EmptyObj]
FileOf(obj) == [exists |-> TRUE, json |-> TRUE, obj |-> obj]
CorruptFile == [exists |-> TRUE, json |-> FALSE, obj |-> EmptyObj]

\* config.Load() on a readable, well-formed file system state
Load(f) ==
    IF ~f.exists THEN defaultConfig
    ELSE LET c == UnmarshalConfig(f.obj)
         IN IF c.APIURL = "" THEN [c EXCEPT !.APIURL = defaultConfig.APIURL] ELSE c

\* config.Load() in a process whose package value defaultConfig is d: without a file
\* the caller gets the address of that value, so d is what the caller reads
LoadWith(f, d) ==
    IF ~f.exists THEN d
    ELSE LET c == UnmarshalConfig(f.obj)
         IN IF c.APIURL = "" THEN [c EXCEPT !.APIURL = d.APIURL] ELSE c

\* the error config.Load() returns
LoadErr(f) ==
    IF f.exists /\ ~f.json THEN "failed to parse config file: " \o "invalid character in JSON input"
    ELSE "<nil>"

\* Config.IsAuthenticated
\* variant: a key counts only together with an expiry
IsAuthenticatedWithExpiry(c) == c.AccessToken /= "" /\ c.TokenExpiry /= ""

IsAuthenticated(c) == c.AccessToken /= ""

\* time.Time.Format(time.RFC3339) of an instant given in seconds
FormatRFC3339(t) == "T" \o ToString(t) \o "Z"

(***************************************************************************)
(* An error value is the text of err.Error(); NilErr is the nil error.     *)
(***************************************************************************)
NilErr == "<nil>"
ErrTransport == "Post: connection failed or timed out"
ErrParse == "invalid character in JSON input"
ErrWrite == "open config.json: permission denied"
ErrTimeout == "authorization timeout exceeded"
ErrStatus(status) == "API returned status " \o ToString(status)
ErrToken(e) == "token error: " \o e
Wrap(prefix, err) == prefix \o err

(***************************************************************************)
(* HTTP responses.  transport = FALSE is a failed client.Do (connection    *)
(* failure or the 10 s timeout); json = FALSE is a body that does not      *)
(* parse; obj is the parsed JSON object otherwise.                         *)
(***************************************************************************)
HTTPResp(status, obj) == [transport |-> TRUE, status |-> status, json |-> TRUE, obj |-> obj]
HTTPGarbage(status) == [transport |-> TRUE, status |-> status, json |-> FALSE, obj |-> EmptyObj]
HTTPFail == [transport |-> FALSE, status |-> 0, json |-> FALSE, obj |-> EmptyObj]

JSONInt(obj, k) == IF k \in DOMAIN obj THEN obj[k] ELSE 0

\* DeviceCodeResponse filled by json.Unmarshal
UnmarshalDeviceCode(obj) ==
    [DeviceCode |-> JSONString(obj, "device_code"),
     UserCode |-> JSONString(obj, "user_code"),
     VerificationURI |-> JSONString(obj, "verification_uri"),
     ExpiresIn |-> JSONInt(obj, "expires_in"),
     Interval |-> JSONInt(obj, "interval")]

\* TokenResponse filled by json.Unmarshal
UnmarshalToken(obj) ==
    [AccessToken |-> JSONString(obj, "access_token"),
     RefreshToken |-> JSONString(obj, "refresh_token"),
     TokenType |-> JSONString(obj, "token_type"),
     ExpiresIn |-> JSONInt(obj, "expires_in"),
     Error |-> JSONString(obj, "error")]

NilToken == UnmarshalToken(EmptyObj)
NilDevice == UnmarshalDeviceCode(EmptyObj)

(***************************************************************************)
(* What the backend may answer.                                            *)
(***************************************************************************)
DeviceObj(i, e) ==
    [device_code |-> "dc-" \o ToString(i), user_code |-> "ABCD-1234",
     verification_uri |-> "https://github.com/login/device",
     expires_in |-> e, interval |-> i]

\* polling intervals the backend may ask for
Intervals == (1..MaxInterval) \cup {LongInterval}

\* answers to POST /auth/github/device/code
DeviceResponses ==
    {HTTPFail, HTTPGarbage(StatusOK), HTTPGarbage(502),
     HTTPResp(500, [error |-> "Internal Server Error"]),
     HTTPResp(201, DeviceObj(1, 1))}
    \cup {HTTPResp(StatusOK, DeviceObj(i, e)) : i \in Intervals, e \in 1..MaxExpiresIn}

\* answers to POST /auth/github/device/token
TokenResponses ==
    {HTTPFail, HTTPGarbage(StatusOK), HTTPGarbage(502),
     HTTPResp(StatusOK, [access_token |-> "tok-A", token_type |-> "bearer", expires_in |-> 3600]),
     HTTPResp(StatusOK, [access_token |-> "tok-B", refresh_token |-> "ref-B",
                         token_type |-> "bearer", expires_in |-> 60]),
     HTTPResp(StatusOK, EmptyObj),
     HTTPResp(500, [message |-> "Internal Server Error"]),
     HTTPResp(400, [error |-> "authorization_pending"]),
     HTTPResp(StatusOK, [error |-> "authorization_pending"]),
     HTTPResp(400, [error |-> "slow_down"]),
     HTTPResp(400, [error |-> "access_denied"]),
     HTTPResp(400, [error |-> "expired_token"])}

\* how long a call may take: 0 up to the client's timeout
Latencies == 0..HTTPTimeout

(***************************************************************************)
(* requestDeviceCode: the DeviceCodeResponse and error it returns.         *)
(***************************************************************************)
\* every 2xx status is accepted
requestDeviceCodeAny2xx(resp) ==
    IF ~resp.transport THEN [dev |-> NilDevice, err |-> ErrTransport]
    ELSE IF resp.status < 200 \/ resp.status >= 300
         THEN [dev |-> NilDevice, err |-> ErrStatus(resp.status)]
    ELSE IF ~resp.json THEN [dev |-> NilDevice, err |-> ErrParse]
    ELSE [dev |-> UnmarshalDeviceCode(resp.obj), err |-> NilErr]

requestDeviceCode(resp) ==
    IF ~resp.transport THEN [dev |-> NilDevice, err |-> ErrTransport]
    ELSE IF resp.status /= StatusOK THEN [dev |-> NilDevice, err |-> ErrStatus(resp.status)]
    ELSE IF ~resp.json THEN [dev |-> NilDevice, err |-> ErrParse]
    ELSE [dev |-> UnmarshalDeviceCode(resp.obj), err |-> NilErr]

\* the request body of checkToken for the device code that AuthenticateDeviceFlow
\* hands to pollForToken
\* variant: the user code is sent
TokenRequestUserCode(dev) == [device_code |-> dev.UserCode]

TokenRequest(dev) == [device_code |-> dev.DeviceCode]

(***************************************************************************)
(* checkToken: the TokenResponse and error it returns; nil is a nil        *)
(* pointer.  The HTTP status is not looked at.                             *)
(***************************************************************************)
\* slow_down is reported as a token error
checkTokenPendingOnly(e) == e = "authorization_pending"

\* tokenResp.Error == "authorization_pending" || tokenResp.Error == "slow_down"
checkTokenRetriable(e) == e = "authorization_pending" \/ e = "slow_down"

checkToken(resp) ==
    IF ~resp.transport THEN [nil |-> TRUE, token |-> NilToken, err |-> ErrTransport]
    ELSE IF ~resp.json THEN [nil |-> TRUE, token |-> NilToken, err |-> ErrParse]
    ELSE LET tokenResp == UnmarshalToken(resp.obj)
         IN IF tokenResp.Error /= ""
            THEN IF checkTokenRetriable(tokenResp.Error)
                 THEN [nil |-> TRUE, token |-> NilToken, err |-> tokenResp.Error]
                 ELSE [nil |-> TRUE, token |-> NilToken, err |-> ErrToken(tokenResp.Error)]
            ELSE [nil |-> FALSE, token |-> tokenResp, err |-> NilErr]

(***************************************************************************)
(* pollForToken's tests.                                                   *)
(***************************************************************************)
\* the deadline with expiresIn taken for minutes
DeadlineInMinutes(start, expiresIn) == start + expiresIn * 60

\* the deadline with expiresIn taken for milliseconds
DeadlineInMillis(start, expiresIn) == start + expiresIn \div 1000

\* timeout := time.Now().Add(time.Duration(expiresIn) * time.Second)
Deadline(start, expiresIn) == start + expiresIn

\* time.Now().After(timeout)
After(t, deadline) == t > deadline

\* every error keeps the loop polling
pollRetriableAny(err) == TRUE

\* slow_down is not recognised by the loop
pollRetriablePendingOnly(err) == err = "authorization_pending"

\* err.Error() == "authorization_pending" || err.Error() == "slow_down"
pollRetriable(err) == err = "authorization_pending" \/ err = "slow_down"

(***************************************************************************)
(* time.Ticker: ticks fall due at creation + k*period; the channel holds   *)
(* at most one tick and a tick that falls due while it is full is dropped. *)
(***************************************************************************)
\* the ticker [next due tick, channel full] after the clock has moved to t
\* variant: a tick that fell due re-arms the ticker from the current time
TickerAtRearmed(next, full, period, t) ==
    IF next <= t
    THEN [next |-> t + period, full |-> TRUE]
    ELSE [next |-> next, full |-> full]

TickerAt(next, full, period, t) ==
    IF next <= t
    THEN [next |-> next + period * (1 + (t - next) \div period), full |-> TRUE]
    ELSE [next |-> next, full |-> full]

VARIABLES
    pc,            \* where AuthenticateDeviceFlow stands
    now,           \* wall-clock time, seconds
    cfg,           \* the *config.Config the flow was given
    file,          \* ~/.armyknife/config.json
    deviceResp,    \* what requestDeviceCode returned
    timeout,       \* pollForToken's deadline
    tickNext,      \* when the ticker's next tick falls due
    tickFull,      \* a tick is waiting in ticker.C
    result,        \* what pollForToken returned
    flowErr,       \* what AuthenticateDeviceFlow returned
    \* what an observer of the run records
    file0,         \* the config file before the run
    devReqs,       \* device-code requests sent
    tokenReqs,     \* token-check requests sent
    saves,         \* successful writes of the config file
    saveCalls,     \* calls of Config.Save
    pollStart,     \* when pollForToken was called
    pollEnd,       \* when pollForToken returned
    reqStart,      \* when the latest token-check request was sent
    lastReq,       \* the JSON body of the latest token-check or PAT exchange request
    prevReqStart,  \* when the one before it was sent
    lastResp,      \* the latest token-check response
    lastDevResp,   \* the device-code response
    retriables,    \* retriable token-check responses received
    others,        \* other token-check responses received
    \* the command line and the config package
    op,            \* the latest command or call, with its inputs
    opErr,         \* the error it returned
    prevLogout,    \* the command before it was a logout that succeeded
    patReqs,       \* requests it sent to /auth/pat/exchange
    shown,         \* what it printed about the authentication
    expiryShown,   \* the Token Expiry text it printed
    pkgDefault,    \* the package variable config.defaultConfig
    cfgIsDefault,  \* cfg points to config.defaultConfig
    procs,         \* concurrent invocations: command, position, file content loaded
    apiReq         \* the request the latest command sent through the API client

vars == <<pc, now, cfg, file, deviceResp, timeout, tickNext, tickFull, result, flowErr,
          file0, devReqs, tokenReqs, saves, saveCalls, pollStart, pollEnd, reqStart, lastReq,
          prevReqStart,
          lastResp, lastDevResp, retriables, others,
          op, opErr, prevLogout, patReqs, shown, expiryShown, pkgDefault, cfgIsDefault,
          procs, apiReq>>

cmdVars == <<op, opErr, prevLogout, patReqs, shown, expiryShown, pkgDefault, cfgIsDefault,
          procs, apiReq>>
pollVars == <<timeout, tickNext, tickFull, pollStart>>
obsReq == <<reqStart, lastReq, prevReqStart, lastResp, retriables, others>>
pollObs == <<reqStart, prevReqStart, lastResp, retriables, others>>

\* no command has run yet
NoOp == [name |-> "none"]
\* no concurrent invocations
NoProcs == <<>>
\* the API client sent no request
NoRequest == [sent |-> FALSE]

NoResult == [nil |-> TRUE, token |-> NilToken, err |-> NilErr]

\* the retriable protocol errors of RFC 8628
RetriableProtocol == {"authorization_pending", "slow_down"}
RespError(resp) == IF resp.transport /\ resp.json THEN JSONString(resp.obj, "error") ELSE ""
RespToken(resp) == IF resp.transport /\ resp.json THEN JSONString(resp.obj, "access_token") ELSE ""
IsRetriableResp(resp) == RespError(resp) \in RetriableProtocol

\* config files a machine may hold before the run
OldConfig ==
    [APIURL |-> "https://api.example.com/api/v1", AccessToken |-> "ak_old_key_1",
     RefreshToken |-> "ref-old", TokenExpiry |-> FormatRFC3339(0)]
InitFiles == {NoFile, FileOf(MarshalConfig(defaultConfig)), FileOf(MarshalConfig(OldConfig))}

Init ==
    /\ pc = "start"
    /\ now = 0
    /\ file \in InitFiles
    /\ file0 = file
    /\ cfg = Load(file)
    /\ deviceResp = NilDevice
    /\ timeout = 0
    /\ tickNext = 0
    /\ tickFull = FALSE
    /\ result = NoResult
    /\ flowErr = NilErr
    /\ devReqs = 0
    /\ tokenReqs = 0
    /\ saves = 0
    /\ saveCalls = 0
    /\ pollStart = 0
    /\ pollEnd = 0
    /\ reqStart = 0
    /\ lastReq = EmptyObj
    /\ prevReqStart = 0
    /\ lastResp = HTTPFail
    /\ lastDevResp = HTTPFail
    /\ retriables = 0
    /\ others = 0
    /\ op = NoOp
    /\ opErr = NilErr
    /\ prevLogout = FALSE
    /\ patReqs = 0
    /\ shown = "nothing"
    /\ expiryShown = ""
    /\ pkgDefault = defaultConfig
    /\ cfgIsDefault = ~file.exists
    /\ procs = NoProcs
    /\ apiReq = NoRequest

(***************************************************************************)
(* AuthenticateDeviceFlow, lines 38-41 and pollForToken, lines 105-112:    *)
(* the device-code request with its answer; on success pollForToken        *)
(* fixes its deadline and starts the ticker.                               *)
(***************************************************************************)
RequestDeviceCodeFrom(responses) ==
    /\ pc = "start"
    /\ \E resp \in responses, lat \in 0..MaxDevLatency :
         LET r == requestDeviceCode(resp)
             t == now + lat
         IN /\ now' = t
            /\ devReqs' = Inc(devReqs)
            /\ lastDevResp' = resp
            /\ deviceResp' = r.dev
            /\ IF r.err /= NilErr
               THEN /\ flowErr' = Wrap("failed to request device code: ", r.err)
                    /\ pc' = "done"
                    /\ UNCHANGED pollVars
               ELSE IF r.dev.Interval <= 0
               THEN \* time.NewTicker panics on a non-positive duration
                    /\ flowErr' = flowErr
                    /\ pc' = "panic"
                    /\ pollStart' = t
                    /\ timeout' = Deadline(t, r.dev.ExpiresIn)
                    /\ UNCHANGED <<tickNext, tickFull>>
               ELSE /\ flowErr' = flowErr
                    /\ pc' = "waiting"
                    /\ pollStart' = t
                    /\ timeout' = Deadline(t, r.dev.ExpiresIn)
                    /\ tickNext' = t + r.dev.Interval
                    /\ tickFull' = FALSE
    /\ UNCHANGED <<cfg, file, file0, result, tokenReqs, saves, saveCalls, pollEnd, obsReq,
                   cmdVars>>

\* the device-code request answered with a positive interval and expires_in, or refused
RequestDeviceCode == RequestDeviceCodeFrom(DeviceResponses)

(***************************************************************************)
(* pollForToken, lines 116-121: a tick is received, the deadline is        *)
(* tested, and the token-check request goes out.                           *)
(***************************************************************************)
Tick ==
    /\ pc = "waiting"
    /\ LET t == IF tickFull THEN now ELSE tickNext
       IN /\ now' = t
          /\ tickFull' = FALSE
          /\ tickNext' = IF tickFull THEN tickNext ELSE tickNext + deviceResp.Interval
          /\ IF After(t, timeout)
             THEN /\ result' = [nil |-> TRUE, token |-> NilToken, err |-> ErrTimeout]
                  /\ pollEnd' = t
                  /\ pc' = "polled"
                  /\ UNCHANGED <<tokenReqs, reqStart, prevReqStart, lastReq>>
             ELSE /\ tokenReqs' = Inc(tokenReqs)
                  /\ prevReqStart' = reqStart
                  /\ reqStart' = t
                  /\ lastReq' = TokenRequest(deviceResp)
                  /\ pc' = "checking"
                  /\ UNCHANGED <<result, pollEnd>>
    /\ UNCHANGED <<cfg, file, file0, deviceResp, timeout, pollStart, flowErr, devReqs, saves,
                   saveCalls,
                   lastResp, lastDevResp, retriables, others, cmdVars>>

(***************************************************************************)
(* checkToken, lines 156-180 and pollForToken, lines 122-132: the answer   *)
(* arrives after lat seconds and is classified.                            *)
(***************************************************************************)
CheckTokenReturn ==
    /\ pc = "checking"
    /\ \E resp \in TokenResponses, lat \in Latencies :
         LET r == checkToken(resp)
             t == now + lat
             tk == TickerAt(tickNext, tickFull, deviceResp.Interval, t)
         IN /\ now' = t
            /\ tickNext' = tk.next
            /\ tickFull' = tk.full
            /\ lastResp' = resp
            /\ retriables' = IF IsRetriableResp(resp) THEN Inc(retriables) ELSE retriables
            /\ others' = IF IsRetriableResp(resp) THEN others ELSE Inc(others)
            /\ IF r.err /= NilErr /\ pollRetriable(r.err)
               THEN /\ pc' = "waiting"
                    /\ UNCHANGED <<result, pollEnd>>
               ELSE /\ result' = r
                    /\ pollEnd' = t
                    /\ pc' = "polled"
    /\ UNCHANGED <<cfg, file, file0, deviceResp, timeout, pollStart, flowErr, devReqs,
                   tokenReqs, saves, saveCalls, reqStart, lastReq, prevReqStart,
                   lastDevResp, cmdVars>>

(***************************************************************************)
(* Config.Save: the file after the call and the error returned;            *)
(* ok = FALSE is an os.WriteFile that could not open the file.             *)
(***************************************************************************)
\* variant: the write appends to an existing file instead of truncating it
SaveAppending(c, f, ok) ==
    IF ok THEN [file |-> IF f.exists THEN CorruptFile ELSE FileOf(MarshalConfig(c)),
                err |-> NilErr]
    ELSE [file |-> f, err |-> "failed to write config file: " \o ErrWrite]

Save(c, f, ok) ==
    IF ok THEN [file |-> FileOf(MarshalConfig(c)), err |-> NilErr]
    ELSE [file |-> f, err |-> "failed to write config file: " \o ErrWrite]

(***************************************************************************)
(* AuthenticateDeviceFlow, lines 49-63: a poll error is returned; a token  *)
(* is put into the config and the config saved.                            *)
(***************************************************************************)
\* variant: the token fields are stored and saved before the poll error is looked at
FinishLoginSaveFirst ==
    /\ pc = "polled"
    /\ \E ok \in BOOLEAN :
         LET c == [cfg EXCEPT !.AccessToken = result.token.AccessToken,
                              !.RefreshToken = result.token.RefreshToken,
                              !.TokenExpiry = FormatRFC3339(now + result.token.ExpiresIn)]
             s == Save(c, file, ok)
         IN /\ cfg' = c
            /\ file' = s.file
            /\ saves' = IF ok THEN Inc(saves) ELSE saves
            /\ saveCalls' = Inc(saveCalls)
            /\ flowErr' = IF result.err /= NilErr
                          THEN Wrap("failed to get token: ", result.err)
                          ELSE IF s.err /= NilErr
                          THEN Wrap("failed to save config: ", s.err) ELSE NilErr
    /\ pc' = "done"
    /\ UNCHANGED <<now, file0, deviceResp, pollVars, result, devReqs, tokenReqs, pollEnd,
                   obsReq, lastDevResp, cmdVars>>

FinishLogin ==
    /\ pc = "polled"
    /\ IF result.err /= NilErr
       THEN /\ flowErr' = Wrap("failed to get token: ", result.err)
            /\ UNCHANGED <<cfg, file, saves, saveCalls>>
       ELSE \E ok \in BOOLEAN :
              LET c == [cfg EXCEPT !.AccessToken = result.token.AccessToken,
                                   !.RefreshToken = result.token.RefreshToken,
                                   !.TokenExpiry = FormatRFC3339(now + result.token.ExpiresIn)]
                  s == Save(c, file, ok)
              IN /\ cfg' = c
                 /\ file' = s.file
                 /\ saves' = IF ok THEN Inc(saves) ELSE saves
                 /\ saveCalls' = Inc(saveCalls)
                 /\ flowErr' = IF s.err /= NilErr
                               THEN Wrap("failed to save config: ", s.err) ELSE NilErr
    /\ pc' = "done"
    /\ UNCHANGED <<now, file0, deviceResp, pollVars, result, devReqs, tokenReqs, pollEnd,
                   obsReq, lastDevResp, cmdVars>>

Next == RequestDeviceCode \/ Tick \/ CheckTokenReturn \/ FinishLogin

Spec == Init /\ [][Next]_vars

(***************************************************************************)
(* The device flow with every device-code answer that requestDeviceCode    *)
(* accepts, also those whose interval or expires_in is 0 or missing.       *)
(***************************************************************************)
AnyDeviceResponses ==
    DeviceResponses
    \cup {HTTPResp(StatusOK, DeviceObj(i, e)) : i \in {0, 1, 2}, e \in {0, 1, 2}}
    \cup {HTTPResp(StatusOK, [device_code |-> "dc-x", user_code |-> "ABCD-1234",
                              verification_uri |-> "https://github.com/login/device"]),
          HTTPResp(StatusOK, [device_code |-> "dc-y", expires_in |-> 2]),
          HTTPResp(StatusOK, [device_code |-> "dc-z", interval |-> 2])}

RequestAnyDeviceCode == RequestDeviceCodeFrom(AnyDeviceResponses)

AnyNext == RequestAnyDeviceCode \/ Tick \/ CheckTokenReturn \/ FinishLogin

AnySpec == Init /\ [][AnyNext]_vars

\* every blocking step ends: the ticker ticks, a call returns within its timeout
FairSpec == Spec /\ WF_vars(Next)

TypeOK ==
    /\ pc \in {"start", "waiting", "checking", "polled", "done"}
    /\ now \in Nat
    /\ tickFull \in BOOLEAN
    /\ tokenReqs \in 0..MaxCount

(***************************************************************************)
(* The auth commands (src/unnamed/part_009) and the --api-url flag         *)
(* (src/cmd/root.go).                                                      *)
(***************************************************************************)
\* the default of the persistent flag --api-url
FlagDefaultAPIURL == "https://api.armyknifelabs.com/api/v1"

\* the value of the package variable apiURL after flag parsing:
\* the flag's default when it is not given, else what was given
APIURLFlag(given, value) == IF given THEN value ELSE FlagDefaultAPIURL

\* loginCmd: the shortest API key accepted; isValidAPIKey: the length of the prefix
MinAPIKeyLen == 10
APIKeyPrefixLen == 3

\* isValidAPIKey
isValidAPIKey(key) ==
    Len(key) > APIKeyPrefixLen /\ SubSeq(key, 1, APIKeyPrefixLen) = "ak_"

\* answers to POST /auth/pat/exchange
ExchangeData(key, expires) ==
    [api_key |-> key, key_id |-> "7f3c", key_name |-> "cli", expires_at |-> expires,
     user |-> [id |-> 7, username |-> "octocat"]]

ExchangeResponses ==
    {HTTPFail, HTTPGarbage(502),
     HTTPResp(StatusOK, [success |-> TRUE, data |-> ExchangeData("ak_from_pat_9", "T3700Z")]),
     HTTPResp(StatusOK, [success |-> TRUE]),
     HTTPResp(401, [success |-> FALSE,
                    error |-> [code |-> "INVALID_PAT", message |-> "GitHub PAT is not valid"]]),
     HTTPResp(500, [message |-> "Internal Server Error"])}

\* a string member of a nested JSON object, "" when the path is absent
JSONNested(obj, k, m) ==
    IF k \in DOMAIN obj THEN JSONString(obj[k], m) ELSE ""

\* the anonymous result struct filled by json.NewDecoder(resp.Body).Decode
DecodeExchange(obj) ==
    [Success |-> IF "success" \in DOMAIN obj THEN obj["success"] ELSE FALSE,
     APIKey |-> JSONNested(obj, "data", "api_key"),
     KeyID |-> JSONNested(obj, "data", "key_id"),
     KeyName |-> JSONNested(obj, "data", "key_name"),
     ExpiresAt |-> JSONNested(obj, "data", "expires_at"),
     Code |-> JSONNested(obj, "error", "code"),
     Message |-> JSONNested(obj, "error", "message")]

\* variant: the success flag of the envelope is not looked at
exchangeUnchecked(r) == FALSE

\* if !result.Success
exchangeFailed(r) == ~r.Success

\* reqBody of exchangePATForAPIKey
exchangeBody(githubPAT) == [github_pat |-> githubPAT]

\* loginCmd, lines 132-136: the flag --github-pat, else the variable GITHUB_PAT
\* variant: the environment variable goes first
effectivePATEnvFirst(patFlag, patEnv) == IF patEnv = "" THEN patFlag ELSE patEnv

effectivePAT(patFlag, patEnv) == IF patFlag = "" THEN patEnv ELSE patFlag

(***************************************************************************)
(* exchangePATForAPIKey(cfg, githubPAT): the config in memory, the file,   *)
(* the error returned and the number of requests sent, for the answer resp *)
(* and the outcome ok of the write.                                        *)
(***************************************************************************)
exchangePATForAPIKey(c, githubPAT, resp, f, ok) ==
    IF ~resp.transport
    THEN [cfg |-> c, file |-> f, err |-> "failed to contact API: " \o ErrTransport,
          reqs |-> 1, body |-> exchangeBody(githubPAT),
          saved |-> FALSE, called |-> FALSE]
    ELSE IF ~resp.json
    THEN [cfg |-> c, file |-> f, err |-> "failed to parse response: " \o ErrParse,
          reqs |-> 1, body |-> exchangeBody(githubPAT),
          saved |-> FALSE, called |-> FALSE]
    ELSE LET r == DecodeExchange(resp.obj)
         IN IF exchangeFailed(r)
            THEN [cfg |-> c, file |-> f,
                  err |-> "PAT exchange failed: " \o r.Code \o " - " \o r.Message,
                  reqs |-> 1, body |-> exchangeBody(githubPAT),
          saved |-> FALSE, called |-> FALSE]
            ELSE LET c2 == [c EXCEPT !.AccessToken = r.APIKey, !.TokenExpiry = r.ExpiresAt]
                     sv == Save(c2, f, ok)
                 IN [cfg |-> c2, file |-> sv.file,
                     err |-> IF sv.err /= NilErr
                             THEN "failed to save config: " \o sv.err ELSE NilErr,
                     reqs |-> 1, body |-> exchangeBody(githubPAT),
                     saved |-> ok, called |-> TRUE]

(***************************************************************************)
(* loginCmd.RunE.  apiURL is the package variable set by --api-url;        *)
(* patFlag and apiKeyFlag are the flags ("" when not given), patEnv is     *)
(* GITHUB_PAT, typed is what the user enters at the prompt.                *)
(***************************************************************************)
loginCmd(f, apiURL, patFlag, patEnv, apiKeyFlag, typed, resp, ok) ==
    IF LoadErr(f) /= NilErr
    THEN [cfg |-> defaultConfig, file |-> f, err |-> "failed to load config: " \o LoadErr(f),
          reqs |-> 0, body |-> EmptyObj,
          saved |-> FALSE, called |-> FALSE, path |-> "none"]
    ELSE LET c0 == Load(f)
             c == IF apiURL /= "" THEN [c0 EXCEPT !.APIURL = apiURL] ELSE c0
             githubPAT == effectivePAT(patFlag, patEnv)
             apiKey == IF apiKeyFlag = "" THEN typed ELSE apiKeyFlag
         IN IF githubPAT /= ""
            THEN LET x == exchangePATForAPIKey(c, githubPAT, resp, f, ok)
                 IN [cfg |-> x.cfg, file |-> x.file, err |-> x.err, reqs |-> x.reqs,
                     body |-> x.body,
                     saved |-> x.saved, called |-> x.called, path |-> "pat"]
            ELSE IF apiKey = ""
            THEN [cfg |-> c, file |-> f, err |-> "API key is required",
                  reqs |-> 0, body |-> EmptyObj,
          saved |-> FALSE, called |-> FALSE, path |-> "key"]
            ELSE IF Len(apiKey) < MinAPIKeyLen \/ ~isValidAPIKey(apiKey)
            THEN [cfg |-> c, file |-> f, err |-> "invalid API key format",
                  reqs |-> 0, body |-> EmptyObj,
          saved |-> FALSE, called |-> FALSE, path |-> "key"]
            ELSE LET c2 == [c EXCEPT !.AccessToken = apiKey]
                     sv == Save(c2, f, ok)
                 IN [cfg |-> c2, file |-> sv.file,
                     err |-> IF sv.err /= NilErr
                             THEN "failed to save config: " \o sv.err ELSE NilErr,
                     reqs |-> 0, body |-> EmptyObj,
                     saved |-> ok, called |-> TRUE, path |-> "key"]

\* variant: only the access token is cleared
ClearAccessOnly(c) == [c EXCEPT !.AccessToken = ""]

\* logoutCmd.RunE, lines 262-264
ClearAuth(c) == [c EXCEPT !.AccessToken = "", !.RefreshToken = "", !.TokenExpiry = ""]

\* logoutCmd.RunE
logoutCmd(f, ok) ==
    IF LoadErr(f) /= NilErr
    THEN [cfg |-> defaultConfig, file |-> f, err |-> "failed to load config: " \o LoadErr(f),
          saved |-> FALSE, called |-> FALSE]
    ELSE LET c == ClearAuth(Load(f))
             sv == Save(c, f, ok)
         IN [cfg |-> c, file |-> sv.file,
             err |-> IF sv.err /= NilErr THEN "failed to save config: " \o sv.err ELSE NilErr,
             saved |-> ok, called |-> TRUE]

(***************************************************************************)
(* formatExpiryDate.  Instants are whole seconds; an RFC3339 text is the   *)
(* text FormatRFC3339 writes.                                              *)
(***************************************************************************)
\* time.Hour in seconds, and the divisor of duration.Hours() / 24
Hour == 3600
HoursPerDay == 24
Day == HoursPerDay * Hour

Digits == {"0", "1", "2", "3", "4", "5", "6", "7", "8", "9"}
DigitVal(ch) ==
    CASE ch = "0" -> 0 [] ch = "1" -> 1 [] ch = "2" -> 2 [] ch = "3" -> 3 [] ch = "4" -> 4
      [] ch = "5" -> 5 [] ch = "6" -> 6 [] ch = "7" -> 7 [] ch = "8" -> 8 [] ch = "9" -> 9

RECURSIVE ParseDigits(_)
ParseDigits(s) ==
    IF Len(s) = 0 THEN 0
    ELSE ParseDigits(SubSeq(s, 1, Len(s) - 1)) * 10 + DigitVal(SubSeq(s, Len(s), Len(s)))

\* time.Parse(time.RFC3339, s): whether it parses, and the instant
ParseRFC3339(s) ==
    IF /\ Len(s) >= 3
       /\ SubSeq(s, 1, 1) = "T" /\ SubSeq(s, Len(s), Len(s)) = "Z"
       /\ \A i \in 2..(Len(s) - 1) : SubSeq(s, i, i) \in Digits
    THEN [ok |-> TRUE, t |-> ParseDigits(SubSeq(s, 2, Len(s) - 1))]
    ELSE [ok |-> FALSE, t |-> 0]

\* expiryTime.Format("January 2, 2006 at 3:04 PM MST")
FormatLayout(t) == "instant " \o ToString(t) \o " UTC"

\* int(x): the conversion of a float to int drops the fraction, towards zero
DaysUntil(d) == IF d >= 0 THEN d \div Day ELSE -((-d) \div Day)

\* the remark chosen by the if-chain on days
\* variant: a zero day count counts as expired
ExpiryRemarkInclusive(days) ==
    IF days <= 0 THEN "(EXPIRED)"
    ELSE IF days = 1 THEN "(1 day from now)"
    ELSE "(" \o ToString(days) \o " days from now)"

ExpiryRemark(days) ==
    IF days < 0 THEN "(EXPIRED)"
    ELSE IF days = 0 THEN "(expires today)"
    ELSE IF days = 1 THEN "(1 day from now)"
    ELSE "(" \o ToString(days) \o " days from now)"

\* formatExpiryDate(isoDate) when time.Now() is t
formatExpiryDate(isoDate, t) ==
    IF isoDate = "" THEN "Unknown"
    ELSE LET e == ParseRFC3339(isoDate)
         IN IF ~e.ok THEN isoDate
            ELSE FormatLayout(e.t) \o " " \o ExpiryRemark(DaysUntil(e.t - t))

\* statusCmd.RunE when time.Now() is t: the error, whether it prints Authenticated,
\* and the Token Expiry row of the table
statusCmd(f, t) ==
    IF LoadErr(f) /= NilErr
    THEN [err |-> "failed to load config: " \o LoadErr(f), shown |-> "nothing", expiry |-> ""]
    ELSE [err |-> NilErr,
          shown |-> IF IsAuthenticated(Load(f)) THEN "authenticated" ELSE "not authenticated",
          expiry |-> IF IsAuthenticated(Load(f))
                     THEN formatExpiryDate(Load(f).TokenExpiry, t) ELSE ""]

(***************************************************************************)
(* The command line: auth login, auth logout and auth status run one after *)
(* the other, each in a process of its own, on one config file.            *)
(***************************************************************************)
\* what --api-url may be given as
URLValues == {"https://staging.example.com/api/v1"}
\* what --github-pat and GITHUB_PAT may hold
PATFlags == {"", "ghp_flag"}
PATEnvs == {"", "ghp_env"}
\* what --api-key may hold and what may be typed at the prompt
APIKeyFlags == {"", "ak_new_key_2", "ak_short", "xx_not_an_api_key"}
TypedKeys == {"", "ak_typed_key_3"}

\* config files a machine may hold before the first command
CliFiles ==
    {NoFile, CorruptFile, FileOf(MarshalConfig(defaultConfig)), FileOf(MarshalConfig(OldConfig)),
     FileOf([access_token |-> "ak_old_key_1", token_expiry |-> "T99Z"])}

CliInit ==
    /\ pc = "cli"
    /\ now = CliClock
    /\ file \in CliFiles
    /\ file0 = file
    /\ cfg = defaultConfig
    /\ deviceResp = NilDevice
    /\ timeout = 0
    /\ tickNext = 0
    /\ tickFull = FALSE
    /\ result = NoResult
    /\ flowErr = NilErr
    /\ devReqs = 0
    /\ tokenReqs = 0
    /\ saves = 0
    /\ saveCalls = 0
    /\ pollStart = 0
    /\ pollEnd = 0
    /\ reqStart = 0
    /\ lastReq = EmptyObj
    /\ prevReqStart = 0
    /\ lastResp = HTTPFail
    /\ lastDevResp = HTTPFail
    /\ retriables = 0
    /\ others = 0
    /\ op = NoOp
    /\ opErr = NilErr
    /\ prevLogout = FALSE
    /\ patReqs = 0
    /\ shown = "nothing"
    /\ expiryShown = ""
    /\ pkgDefault = defaultConfig
    /\ cfgIsDefault = FALSE
    /\ procs = NoProcs
    /\ apiReq = NoRequest

\* the loginCmd of the source never calls client.AuthenticateDeviceFlow: a command
\* sends no device-code and no token-check request

\* what no command touches
cliFrame == <<pc, now, deviceResp, pollVars, result, flowErr, pollEnd, pollObs, lastDevResp,
              pkgDefault, cfgIsDefault, procs, apiReq>>

\* the exchange answered with success = true: the only answers after which it saves
ExchangeAccepted(resp) == resp.transport /\ resp.json /\ DecodeExchange(resp.obj).Success

\* the ways to run auth login: with a PAT (the prompt is not shown), or without one
LoginInputs ==
    {i \in {[given |-> g, patFlag |-> pf, patEnv |-> pe, apiKey |-> k, typed |-> "",
             resp |-> r, ok |-> ok] :
               g \in BOOLEAN, pf \in PATFlags, pe \in PATEnvs, k \in {"", "ak_new_key_2"},
               r \in ExchangeResponses, ok \in BOOLEAN} :
        /\ i.patFlag /= "" \/ i.patEnv /= ""
        /\ ~i.ok => ExchangeAccepted(i.resp)}
    \cup
    {i \in {[given |-> g, patFlag |-> "", patEnv |-> "", apiKey |-> k, typed |-> t,
             resp |-> HTTPFail, ok |-> ok] :
               g \in BOOLEAN, k \in APIKeyFlags, t \in TypedKeys, ok \in BOOLEAN} :
        /\ i.apiKey \notin {"", "ak_new_key_2"} => i.typed = ""
        /\ ~i.ok => (i.apiKey = "ak_new_key_2" \/ i.typed /= "")}

\* armyknife auth login
Login ==
    /\ pc = "cli"
    /\ \E i \in LoginInputs :
         \E r \in {loginCmd(file, APIURLFlag(i.given, CHOOSE v \in URLValues : TRUE),
                              i.patFlag, i.patEnv, i.apiKey, i.typed, i.resp, i.ok)} :
            /\ op' = [name |-> "login", urlGiven |-> i.given, patFlag |-> i.patFlag,
                      patEnv |-> i.patEnv, apiKey |-> i.apiKey, typed |-> i.typed,
                      resp |-> i.resp, path |-> r.path]
            /\ opErr' = r.err
            /\ cfg' = r.cfg
            /\ file' = r.file
            /\ patReqs' = r.reqs
            /\ lastReq' = r.body
            /\ saves' = IF r.saved THEN 1 ELSE 0
            /\ saveCalls' = IF r.called THEN 1 ELSE 0
    /\ file0' = file
    /\ prevLogout' = (op.name = "logout" /\ opErr = NilErr)
    /\ devReqs' = 0
    /\ tokenReqs' = 0
    /\ shown' = "nothing"
    /\ expiryShown' = ""
    /\ UNCHANGED cliFrame

\* armyknife auth logout
Logout ==
    /\ pc = "cli"
    /\ \E ok \in BOOLEAN :
         \E r \in {logoutCmd(file, ok)} :
            /\ op' = [name |-> "logout", ok |-> ok]
            /\ opErr' = r.err
            /\ cfg' = r.cfg
            /\ file' = r.file
            /\ saves' = IF r.saved THEN 1 ELSE 0
            /\ saveCalls' = IF r.called THEN 1 ELSE 0
    /\ file0' = file
    /\ prevLogout' = (op.name = "logout" /\ opErr = NilErr)
    /\ patReqs' = 0
    /\ lastReq' = EmptyObj
    /\ devReqs' = 0
    /\ tokenReqs' = 0
    /\ shown' = "nothing"
    /\ expiryShown' = ""
    /\ UNCHANGED cliFrame

\* armyknife auth status
Status ==
    /\ pc = "cli"
    /\ \E r \in {statusCmd(file, now)} :
          /\ op' = [name |-> "status"]
          /\ opErr' = r.err
          /\ shown' = r.shown
          /\ expiryShown' = r.expiry
    /\ file0' = file
    /\ prevLogout' = (op.name = "logout" /\ opErr = NilErr)
    /\ patReqs' = 0
    /\ lastReq' = EmptyObj
    /\ devReqs' = 0
    /\ tokenReqs' = 0
    /\ saves' = 0
    /\ saveCalls' = 0
    /\ UNCHANGED <<cfg, file>>
    /\ UNCHANGED cliFrame

CliNext == Login \/ Logout \/ Status

CliSpec == CliInit /\ [][CliNext]_vars

(***************************************************************************)
(* Vocabulary of the properties.                                           *)
(***************************************************************************)
\* pollForToken has returned
PollReturned == result /= NoResult
\* pollForToken returned a token and no error
PollSucceeded == ~result.nil /\ result.err = NilErr
\* pollForToken returned the timeout failure
PollTimedOut == result.nil /\ result.err = ErrTimeout
ExpiresIn == deviceResp.ExpiresIn
Interval == deviceResp.Interval
\* a token response with no error and a populated access_token
IsSuccessResp(resp) == resp.transport /\ resp.json /\ RespError(resp) = "" /\ RespToken(resp) /= ""
\* a server-reported error that is not retriable
IsDeniedResp(resp) == RespError(resp) /= "" /\ RespError(resp) \notin RetriableProtocol
\* a transport failure, or a non-2xx status whose body carries no error field
IsBareFailure(resp) ==
    \/ ~resp.transport
    \/ resp.status \notin 200..299 /\ RespError(resp) = ""
\* the device-code request failed: transport failure or a status other than 200
DeviceFailed(resp) == ~resp.transport \/ resp.status /= StatusOK

(***************************************************************************)
(* C1 as stated: pollForToken returns no later than expires_in + interval  *)
(* seconds after it was started, whatever the responses and latencies.     *)
(***************************************************************************)
C1_Original == PollReturned => pollEnd <= pollStart + ExpiresIn + Interval

(***************************************************************************)
(* C1: pollForToken returns no later than expires_in + max(interval, 10 s  *)
(* per-call timeout) seconds after it was started, for every sequence of   *)
(* responses and every latency of 0 to 10 s.                               *)
(***************************************************************************)
C1_TerminationBound ==
    PollReturned => pollEnd <= pollStart + ExpiresIn + Max(Interval, HTTPTimeout)

\* a slow last call: pollForToken returns later than e + i, within the bound
C1_Witness ==
    /\ PollReturned
    /\ tokenReqs >= 1
    /\ pollEnd > pollStart + ExpiresIn + Interval
    /\ pollEnd <= pollStart + ExpiresIn + HTTPTimeout

(***************************************************************************)
(* C2: while only authorization_pending / slow_down have been received, a  *)
(* further retriable response keeps the loop waiting (it returns nothing), *)
(* and a success response makes it return exactly that response's token.   *)
(***************************************************************************)
C2_RetryTransparency ==
    [][(pc = "checking" /\ others = 0) =>
         /\ IsRetriableResp(lastResp') => (pc' = "waiting" /\ result' = NoResult)
         /\ IsSuccessResp(lastResp') =>
              /\ pc' = "polled"
              /\ ~result'.nil /\ result'.err = NilErr
              /\ result'.token = UnmarshalToken(lastResp'.obj)
              /\ result'.token.AccessToken = RespToken(lastResp')]_vars

\* two retriable responses, one of them slow_down, then the token
C2_Witness ==
    /\ PollSucceeded
    /\ retriables >= 2 /\ others = 1
    /\ result.token.AccessToken = "tok-B"
    /\ IsSuccessResp(lastResp)

(***************************************************************************)
(* C3: a response with a non-empty error other than authorization_pending  *)
(* and slow_down makes pollForToken return, in that same step, a failure   *)
(* carrying the server's error string; once pollForToken has returned no   *)
(* token-check request is sent.                                            *)
(***************************************************************************)
C3_ImmediateFatal ==
    [][/\ (pc = "checking" /\ IsDeniedResp(lastResp')) =>
            /\ pc' = "polled"
            /\ result'.nil
            /\ result'.err = "token error: " \o RespError(lastResp')
            /\ pollEnd' = now'
            /\ tokenReqs' = tokenReqs
       /\ PollReturned => (tokenReqs' = tokenReqs /\ reqStart' = reqStart /\ pc' \in {"polled", "done"})]_vars

\* access_denied on the first tick
C3_Witness ==
    /\ pc = "polled"
    /\ tokenReqs = 1
    /\ RespError(lastResp) = "access_denied"
    /\ result.err = "token error: access_denied"
    /\ pollEnd = reqStart + 0

(***************************************************************************)
(* C4 as stated: pollForToken returns success only for a response with no  *)
(* error and a non-empty access_token.                                     *)
(***************************************************************************)
C4_SuccessNeedsToken ==
    PollSucceeded => (RespError(lastResp) = "" /\ RespToken(lastResp) /= "")

(***************************************************************************)
(* C5 as stated: a token-check that ends in a transport failure or in a    *)
(* non-2xx status without an error body makes pollForToken return an       *)
(* error; it is neither a success nor retried.                             *)
(***************************************************************************)
C5_BareFailureFatal ==
    (tokenReqs > 0 /\ pc /= "checking" /\ IsBareFailure(lastResp)) =>
        (PollReturned /\ result.nil /\ result.err /= NilErr)

(***************************************************************************)
(* C6: with deadline = start + expiresIn, a tick received after the        *)
(* deadline returns the timeout failure and sends no token-check request;  *)
(* no token-check request is ever sent after the deadline.                 *)
(***************************************************************************)
C6_DeadlineRespected ==
    [][/\ (pc = "waiting" /\ now' > pollStart + ExpiresIn) =>
            /\ pc' = "polled"
            /\ result'.nil /\ result'.err = ErrTimeout
            /\ tokenReqs' = tokenReqs /\ reqStart' = reqStart
       /\ tokenReqs' > 0 => reqStart' <= pollStart' + deviceResp'.ExpiresIn]_vars

\* a timeout declared after at least one request, on a tick that had been waiting
C6_Witness ==
    /\ PollTimedOut
    /\ tokenReqs >= 2
    /\ pollEnd > pollStart + ExpiresIn
    /\ reqStart <= pollStart + ExpiresIn

(***************************************************************************)
(* C7 as stated: the first token-check request starts at least interval    *)
(* seconds after pollForToken starts and consecutive requests start at     *)
(* least interval seconds apart.                                           *)
(***************************************************************************)
C7_MinSpacing ==
    /\ tokenReqs >= 1 => reqStart >= pollStart + Interval
    /\ tokenReqs >= 2 => reqStart - prevReqStart >= Interval

(***************************************************************************)
(* C8 as stated: the timeout failure is returned no later than             *)
(* start + expiresIn.                                                      *)
(***************************************************************************)
C8_Original == PollTimedOut => pollEnd <= pollStart + ExpiresIn

(***************************************************************************)
(* C8: the timeout failure is returned on the first tick received after    *)
(* the deadline: strictly later than start + expiresIn and no later than   *)
(* start + expiresIn + max(interval, 10 s per-call timeout).               *)
(***************************************************************************)
C8_TimeoutWindow ==
    PollTimedOut =>
        /\ pollEnd > pollStart + ExpiresIn
        /\ pollEnd <= pollStart + ExpiresIn + Max(Interval, HTTPTimeout)

\* a timeout declared after retriable answers, past the deadline
C8_Witness ==
    /\ PollTimedOut
    /\ retriables >= 1 /\ others = 0
    /\ pollEnd > pollStart + ExpiresIn
    /\ pollEnd < pollStart + ExpiresIn + Interval

(***************************************************************************)
(* C9: once pollForToken waits, it eventually returns; if every response   *)
(* it received was authorization_pending / slow_down, what it returns is   *)
(* the timeout failure, never the retriable error.                         *)
(***************************************************************************)
C9_RetriableEndsInTimeout ==
    (pc = "waiting") ~> (PollReturned /\ (others = 0 => PollTimedOut))

\* only retriable responses, both kinds, and the timeout at the end
C9_Witness ==
    /\ PollTimedOut
    /\ others = 0
    /\ retriables >= 2
    /\ RespError(lastResp) = "slow_down"

(***************************************************************************)
(* C10: a device-code request that fails (transport failure or a status    *)
(* other than 200) ends the login: one device-code request, no token-check *)
(* request, an error returned, the config file not written.                *)
(***************************************************************************)
C10_DeviceCodeFailureAborts ==
    (devReqs > 0 /\ DeviceFailed(lastDevResp)) =>
        /\ pc = "done"
        /\ devReqs = 1
        /\ tokenReqs = 0
        /\ flowErr /= NilErr
        /\ saves = 0
        /\ file = file0

\* a 201 answer with a well-formed body is refused like any other non-200
C10_Witness ==
    /\ pc = "done"
    /\ devReqs = 1
    /\ lastDevResp.status = 201 /\ lastDevResp.json
    /\ flowErr = "failed to request device code: API returned status 201"

(***************************************************************************)
(* One process that uses package config and exchangePATForAPIKey directly: *)
(* it calls Load, stores tokens in the record Load returned, saves it and  *)
(* exchanges PATs, in any order.  pkgDefault is the package value          *)
(* defaultConfig; cfgIsDefault says that the record held is that value     *)
(* itself (Load returned its address), so that assignments change both.    *)
(***************************************************************************)
LibFiles == {NoFile, FileOf(MarshalConfig(defaultConfig)), FileOf(MarshalConfig(OldConfig))}
LibPATs == {"", "ghp_lib"}
\* token records as the specification has them; expires_at is kept as the RFC3339 text
TokenRecords ==
    {[access_token |-> "", refresh_token |-> "", token_type |-> "", expires_at |-> ""],
     [access_token |-> "at-1", refresh_token |-> "rt-1", token_type |-> "Bearer",
      expires_at |-> FormatRFC3339(CliClock + 60)],
     [access_token |-> "at-2", refresh_token |-> "", token_type |-> "",
      expires_at |-> FormatRFC3339(CliClock + 7)]}

\* AuthenticateDeviceFlow, lines 54-56: the three assignments that put a token into
\* the config; the token type has no field to go to
StoreToken(c, r) ==
    [c EXCEPT !.AccessToken = r.access_token, !.RefreshToken = r.refresh_token,
              !.TokenExpiry = r.expires_at]

\* the token record a Config holds
TokenRecordOf(c) ==
    [access_token |-> c.AccessToken, refresh_token |-> c.RefreshToken, token_type |-> "",
     expires_at |-> c.TokenExpiry]

libFrame == <<pc, now, deviceResp, pollVars, result, flowErr, pollEnd, pollObs, lastDevResp,
              devReqs, tokenReqs, shown, expiryShown, prevLogout, procs, apiReq>>

LibInit ==
    /\ pc = "lib"
    /\ now = CliClock
    /\ file \in LibFiles
    /\ file0 = file
    /\ cfg = defaultConfig
    /\ deviceResp = NilDevice
    /\ timeout = 0
    /\ tickNext = 0
    /\ tickFull = FALSE
    /\ result = NoResult
    /\ flowErr = NilErr
    /\ devReqs = 0
    /\ tokenReqs = 0
    /\ saves = 0
    /\ saveCalls = 0
    /\ pollStart = 0
    /\ pollEnd = 0
    /\ reqStart = 0
    /\ lastReq = EmptyObj
    /\ prevReqStart = 0
    /\ lastResp = HTTPFail
    /\ lastDevResp = HTTPFail
    /\ retriables = 0
    /\ others = 0
    /\ op = NoOp
    /\ opErr = NilErr
    /\ prevLogout = FALSE
    /\ patReqs = 0
    /\ shown = "nothing"
    /\ expiryShown = ""
    /\ pkgDefault = defaultConfig
    /\ cfgIsDefault = FALSE
    /\ procs = NoProcs
    /\ apiReq = NoRequest

\* cfg, err := config.Load()
LibLoad ==
    /\ pc = "lib"
    /\ op' = [name |-> "load", after |-> op.name]
    /\ opErr' = LoadErr(file)
    /\ IF LoadErr(file) /= NilErr
       THEN UNCHANGED <<cfg, cfgIsDefault>>
       ELSE /\ cfg' = LoadWith(file, pkgDefault)
            /\ cfgIsDefault' = ~file.exists
    /\ file0' = file
    /\ patReqs' = 0
    /\ lastReq' = EmptyObj
    /\ saves' = 0
    /\ saveCalls' = 0
    /\ UNCHANGED <<file, pkgDefault>>
    /\ UNCHANGED libFrame

\* the token r is stored in the record held and the record saved, as in
\* AuthenticateDeviceFlow, lines 54-60
LibStore ==
    /\ pc = "lib"
    /\ op.name /= "none"
    /\ \E r \in TokenRecords, ok \in BOOLEAN :
         \E sv \in {Save(StoreToken(cfg, r), file, ok)} :
            /\ op' = [name |-> "store", rec |-> r, ok |-> ok]
            /\ opErr' = sv.err
            /\ cfg' = StoreToken(cfg, r)
            /\ pkgDefault' = IF cfgIsDefault THEN StoreToken(cfg, r) ELSE pkgDefault
            /\ file' = sv.file
            /\ saves' = IF ok THEN 1 ELSE 0
            /\ saveCalls' = 1
    /\ file0' = file
    /\ patReqs' = 0
    /\ lastReq' = EmptyObj
    /\ UNCHANGED cfgIsDefault
    /\ UNCHANGED libFrame

\* exchangePATForAPIKey(cfg, githubPAT)
LibExchange ==
    /\ pc = "lib"
    /\ op.name /= "none"
    /\ \E pat \in LibPATs, resp \in ExchangeResponses, ok \in BOOLEAN :
         \E r \in {exchangePATForAPIKey(cfg, pat, resp, file, ok)} :
            /\ ~ok => ExchangeAccepted(resp)
            /\ op' = [name |-> "exchange", pat |-> pat, resp |-> resp]
            /\ opErr' = r.err
            /\ cfg' = r.cfg
            /\ pkgDefault' = IF cfgIsDefault THEN r.cfg ELSE pkgDefault
            /\ file' = r.file
            /\ patReqs' = r.reqs
            /\ lastReq' = r.body
            /\ saves' = IF r.saved THEN 1 ELSE 0
            /\ saveCalls' = IF r.called THEN 1 ELSE 0
    /\ file0' = file
    /\ UNCHANGED cfgIsDefault
    /\ UNCHANGED libFrame

LibNext == LibLoad \/ LibStore \/ LibExchange

LibSpec == LibInit /\ [][LibNext]_vars


(***************************************************************************)
(* formatExpiryDate applied to texts of instants around the current time   *)
(* and to texts that are no RFC3339 time.                                  *)
(***************************************************************************)
MaxDays == 2
FmtNows == {(MaxDays + 1) * Day + k : k \in {0, 1, Hour, Day - 1}}
FmtOffsets == {d * Day + e : d \in (-MaxDays)..MaxDays, e \in {-Hour, -1, 0, 1, Hour, 12 * Hour}}
FmtOther == {"", "tomorrow", "2026-11-09"}

FmtInit ==
    /\ pc = "fmt"
    /\ now \in FmtNows
    /\ file = NoFile
    /\ file0 = file
    /\ cfg = defaultConfig
    /\ deviceResp = NilDevice
    /\ timeout = 0
    /\ tickNext = 0
    /\ tickFull = FALSE
    /\ result = NoResult
    /\ flowErr = NilErr
    /\ devReqs = 0
    /\ tokenReqs = 0
    /\ saves = 0
    /\ saveCalls = 0
    /\ pollStart = 0
    /\ pollEnd = 0
    /\ reqStart = 0
    /\ lastReq = EmptyObj
    /\ prevReqStart = 0
    /\ lastResp = HTTPFail
    /\ lastDevResp = HTTPFail
    /\ retriables = 0
    /\ others = 0
    /\ op = NoOp
    /\ opErr = NilErr
    /\ prevLogout = FALSE
    /\ patReqs = 0
    /\ shown = "nothing"
    /\ expiryShown = ""
    /\ pkgDefault = defaultConfig
    /\ cfgIsDefault = FALSE
    /\ procs = NoProcs
    /\ apiReq = NoRequest

fmtFrame == <<pc, now, cfg, file, file0, deviceResp, pollVars, result, flowErr, pollEnd,
              obsReq, lastDevResp, devReqs, tokenReqs, saves, saveCalls, opErr, prevLogout, patReqs,
              shown, pkgDefault, cfgIsDefault, procs, apiReq>>

\* formatExpiryDate of the text of the instant now + d
FormatInstant ==
    /\ pc = "fmt"
    /\ \E d \in FmtOffsets :
         /\ op' = [name |-> "format", valid |-> TRUE, t |-> now + d]
         /\ expiryShown' = formatExpiryDate(FormatRFC3339(now + d), now)
    /\ UNCHANGED fmtFrame

\* formatExpiryDate of a text that is empty or does not parse
FormatOther ==
    /\ pc = "fmt"
    /\ \E s \in FmtOther :
         /\ op' = [name |-> "format", valid |-> FALSE, iso |-> s]
         /\ expiryShown' = formatExpiryDate(s, now)
    /\ UNCHANGED fmtFrame

FmtNext == FormatInstant \/ FormatOther

FmtSpec == FmtInit /\ [][FmtNext]_vars


(***************************************************************************)
(* The API client (Client.request) and the commands that use it: cache     *)
(* stats and cache clear, which gate on Config.IsAuthenticated, and ai     *)
(* health, which does not.                                                 *)
(***************************************************************************)
\* answers of the API to a request of the client
APIResponses ==
    {HTTPFail, HTTPGarbage(StatusOK),
     HTTPResp(StatusOK, [success |-> TRUE, data |-> [hits |-> 3]]),
     HTTPResp(StatusOK, [success |-> FALSE, error |-> [message |-> "cache unavailable"]]),
     HTTPResp(StatusOK, EmptyObj),
     HTTPResp(401, [success |-> FALSE, error |-> [message |-> "invalid API key"]])}

ErrNotAuthenticated == "not authenticated. Run 'armyknife auth login' first"

\* the headers Client.request sets
requestHeaders(c) ==
    IF c.AccessToken /= ""
    THEN ("Content-Type" :> "application/json") @@ ("Authorization" :> "Bearer " \o c.AccessToken)
    ELSE ("Content-Type" :> "application/json")

\* if resp.StatusCode < 200 || resp.StatusCode >= 300
StatusRejected(status) == status < StatusOK \/ status >= StatusMultipleChoices

\* Client.request(method, path, nil) of a client built on c, answered with resp:
\* the request sent and the error returned
request(c, method, path, resp) ==
    [req |-> [sent |-> TRUE, method |-> method, url |-> c.APIURL \o path,
              headers |-> requestHeaders(c)],
     err |-> IF ~resp.transport THEN "request failed: " \o ErrTransport
             ELSE IF StatusRejected(resp.status) THEN ErrStatus(resp.status)
             ELSE IF ~resp.json THEN "failed to parse response: " \o ErrParse
             ELSE IF ~DecodeExchange(resp.obj).Success /\ "error" \in DOMAIN resp.obj
                  THEN "API error: " \o JSONNested(resp.obj, "error", "message")
             ELSE NilErr]

\* the body shared by cacheStatsCmd and cacheClearCmd; gated says whether the test of
\* IsAuthenticated is made
apiCommand(f, apiURL, gated, method, path, prefix, resp) ==
    IF LoadErr(f) /= NilErr
    THEN [err |-> "failed to load config: " \o LoadErr(f), req |-> NoRequest]
    ELSE LET c0 == Load(f)
             c == IF apiURL /= "" THEN [c0 EXCEPT !.APIURL = apiURL] ELSE c0
             r == request(c, method, path, resp)
         IN IF gated /\ ~IsAuthenticated(c0)
            THEN [err |-> ErrNotAuthenticated, req |-> NoRequest]
            ELSE [err |-> IF r.err /= NilErr THEN prefix \o r.err ELSE NilErr, req |-> r.req]

\* variant: cache stats without the test of IsAuthenticated
cacheStatsCmdUngated(f, apiURL, resp) ==
    apiCommand(f, apiURL, FALSE, "GET", "/cache/stats", "failed to fetch cache stats: ", resp)

cacheStatsCmd(f, apiURL, resp) ==
    apiCommand(f, apiURL, TRUE, "GET", "/cache/stats", "failed to fetch cache stats: ", resp)

cacheClearCmd(f, apiURL, resp) ==
    apiCommand(f, apiURL, TRUE, "POST", "/cache/clear", "failed to clear cache: ", resp)

\* aiHealthCmd: no test of IsAuthenticated, the error of the client is returned as it is
aiHealthCmd(f, apiURL, resp) ==
    apiCommand(f, apiURL, FALSE, "GET", "/ai/health", "", resp)

\* config files a machine may hold when such a command runs
APIFiles == CliFiles \cup {FileOf([api_url |-> DefaultAPIURL, access_token |-> "ak_from_pat_9"])}

APIInit ==
    /\ pc = "api"
    /\ now = CliClock
    /\ file \in APIFiles
    /\ file0 = file
    /\ cfg = defaultConfig
    /\ deviceResp = NilDevice
    /\ timeout = 0
    /\ tickNext = 0
    /\ tickFull = FALSE
    /\ result = NoResult
    /\ flowErr = NilErr
    /\ devReqs = 0
    /\ tokenReqs = 0
    /\ saves = 0
    /\ saveCalls = 0
    /\ pollStart = 0
    /\ pollEnd = 0
    /\ reqStart = 0
    /\ lastReq = EmptyObj
    /\ prevReqStart = 0
    /\ lastResp = HTTPFail
    /\ lastDevResp = HTTPFail
    /\ retriables = 0
    /\ others = 0
    /\ op = NoOp
    /\ opErr = NilErr
    /\ prevLogout = FALSE
    /\ patReqs = 0
    /\ shown = "nothing"
    /\ expiryShown = ""
    /\ pkgDefault = defaultConfig
    /\ cfgIsDefault = FALSE
    /\ procs = NoProcs
    /\ apiReq = NoRequest

\* what these commands leave alone: they save nothing
apiFrame == <<pc, now, cfg, file, file0, deviceResp, pollVars, result, flowErr, pollEnd,
              obsReq, lastDevResp, devReqs, tokenReqs, saves, saveCalls, prevLogout, patReqs,
              shown, expiryShown, pkgDefault, cfgIsDefault, procs>>

\* armyknife cache stats
CacheStats ==
    /\ pc = "api"
    /\ \E given \in BOOLEAN, resp \in APIResponses :
         \E r \in {cacheStatsCmd(file, APIURLFlag(given, CHOOSE v \in URLValues : TRUE), resp)} :
            /\ op' = [name |-> "cache stats", gated |-> TRUE, urlGiven |-> given, resp |-> resp]
            /\ opErr' = r.err
            /\ apiReq' = r.req
    /\ UNCHANGED apiFrame

\* armyknife cache clear
CacheClear ==
    /\ pc = "api"
    /\ \E given \in BOOLEAN, resp \in APIResponses :
         \E r \in {cacheClearCmd(file, APIURLFlag(given, CHOOSE v \in URLValues : TRUE), resp)} :
            /\ op' = [name |-> "cache clear", gated |-> TRUE, urlGiven |-> given, resp |-> resp]
            /\ opErr' = r.err
            /\ apiReq' = r.req
    /\ UNCHANGED apiFrame

\* armyknife ai health
AIHealth ==
    /\ pc = "api"
    /\ \E given \in BOOLEAN, resp \in APIResponses :
         \E r \in {aiHealthCmd(file, APIURLFlag(given, CHOOSE v \in URLValues : TRUE), resp)} :
            /\ op' = [name |-> "ai health", gated |-> FALSE, urlGiven |-> given, resp |-> resp]
            /\ opErr' = r.err
            /\ apiReq' = r.req
    /\ UNCHANGED apiFrame

APINext == CacheStats \/ CacheClear \/ AIHealth

APISpec == APIInit /\ [][APINext]_vars


(***************************************************************************)
(* Every way to log in: the device flow of the client package and the      *)
(* commands of the command line, each run from its own initial state.      *)
(***************************************************************************)
AuthInit == Init \/ CliInit

AuthNext == Next \/ CliNext

AuthSpec == AuthInit /\ [][AuthNext]_vars


(***************************************************************************)
(* Two invocations of the command line at the same time on one config      *)
(* file.  Each reads the file in config.Load and, if it gets that far,     *)
(* writes it in Config.Save; os.WriteFile opens the file with O_TRUNC and  *)
(* then writes the text.  Nothing locks the file between these steps.      *)
(***************************************************************************)
RaceKey == "ak_new_key_2"
RaceCommands ==
    {[name |-> "logout"],
     [name |-> "login", pat |-> "", key |-> RaceKey, resp |-> HTTPFail],
     [name |-> "login", pat |-> "ghp_flag", key |-> "",
      resp |-> HTTPResp(StatusOK, [success |-> TRUE,
                                   data |-> ExchangeData("ak_from_pat_9", "T3700Z")])]}
RaceFiles == {NoFile, FileOf(MarshalConfig(OldConfig)),
              FileOf([api_url |-> FlagDefaultAPIURL, access_token |-> "ak_old_key_1",
                      token_expiry |-> "T99Z"])}
Procs == {1, 2}

\* the command c run on a file whose content at the time of its Load is f, its write
\* succeeding: what it writes, whether it calls Save, the error
RunCommand(c, f) ==
    IF c.name = "logout" THEN logoutCmd(f, TRUE)
    ELSE loginCmd(f, FlagDefaultAPIURL, c.pat, "", c.key, "", c.resp, TRUE)

RaceInit ==
    /\ pc = "race"
    /\ now = CliClock
    /\ file \in RaceFiles
    /\ file0 = file
    /\ cfg = defaultConfig
    /\ deviceResp = NilDevice
    /\ timeout = 0
    /\ tickNext = 0
    /\ tickFull = FALSE
    /\ result = NoResult
    /\ flowErr = NilErr
    /\ devReqs = 0
    /\ tokenReqs = 0
    /\ saves = 0
    /\ saveCalls = 0
    /\ pollStart = 0
    /\ pollEnd = 0
    /\ reqStart = 0
    /\ lastReq = EmptyObj
    /\ prevReqStart = 0
    /\ lastResp = HTTPFail
    /\ lastDevResp = HTTPFail
    /\ retriables = 0
    /\ others = 0
    /\ op = NoOp
    /\ opErr = NilErr
    /\ prevLogout = FALSE
    /\ patReqs = 0
    /\ shown = "nothing"
    /\ expiryShown = ""
    /\ pkgDefault = defaultConfig
    /\ cfgIsDefault = FALSE
    /\ procs \in [Procs -> {[cmd |-> c, at |-> "start", loaded |-> NoFile, err |-> NilErr] :
                              c \in RaceCommands}]
    /\ apiReq = NoRequest

raceFrame == <<pc, now, cfg, file0, deviceResp, pollVars, result, flowErr, pollEnd, obsReq,
               lastDevResp, devReqs, tokenReqs, opErr, prevLogout, patReqs, shown,
               expiryShown, pkgDefault, cfgIsDefault, apiReq>>

\* config.Load in invocation p; an invocation that fails before Save ends here
RaceLoad(p) ==
    /\ pc = "race"
    /\ procs[p].at = "start"
    /\ \E r \in {RunCommand(procs[p].cmd, file)} :
         procs' = [procs EXCEPT ![p].loaded = file,
                                ![p].err = IF r.called THEN NilErr ELSE r.err,
                                ![p].at = IF r.called THEN "loaded" ELSE "done"]
    /\ op' = [name |-> "load", p |-> p]
    /\ UNCHANGED <<file, saves, saveCalls>>
    /\ UNCHANGED raceFrame

\* os.WriteFile in invocation p opens the file: it is empty until the text is written
RaceOpen(p) ==
    /\ pc = "race"
    /\ procs[p].at = "loaded"
    /\ procs' = [procs EXCEPT ![p].at = "opened"]
    /\ file' = CorruptFile
    /\ saveCalls' = Inc(saveCalls)
    /\ op' = [name |-> "open", p |-> p]
    /\ UNCHANGED saves
    /\ UNCHANGED raceFrame

\* variant: the text written is computed from the file as it is now
RaceWriteFresh(p) ==
    /\ pc = "race"
    /\ procs[p].at = "opened"
    /\ procs' = [procs EXCEPT ![p].at = "done"]
    /\ file' = RunCommand(procs[p].cmd, file).file
    /\ saves' = Inc(saves)
    /\ op' = [name |-> "write", p |-> p]
    /\ UNCHANGED saveCalls
    /\ UNCHANGED raceFrame

\* os.WriteFile in invocation p writes the text marshalled from the record that
\* invocation loaded and changed
RaceWrite(p) ==
    /\ pc = "race"
    /\ procs[p].at = "opened"
    /\ procs' = [procs EXCEPT ![p].at = "done"]
    /\ file' = RunCommand(procs[p].cmd, procs[p].loaded).file
    /\ saves' = Inc(saves)
    /\ op' = [name |-> "write", p |-> p]
    /\ UNCHANGED saveCalls
    /\ UNCHANGED raceFrame

RaceNext == \E p \in Procs : RaceLoad(p) \/ RaceOpen(p) \/ RaceWrite(p)

RaceSpec == RaceInit /\ [][RaceNext]_vars


(***************************************************************************)
(* Vocabulary of the command-line properties.                              *)
(***************************************************************************)
AuthKeys == {"access_token", "refresh_token", "token_expiry"}
\* the latest command was a login that took the PAT path
PatLogin == op.name = "login" /\ op.path = "pat"
\* the exchange envelope says success = false
IsFailureEnvelope(resp) ==
    resp.transport /\ resp.json /\ "success" \in DOMAIN resp.obj /\ resp.obj["success"] = FALSE
\* the API key a login without PAT offers: the flag, else what was typed
OfferedKey == IF op.apiKey = "" THEN op.typed ELSE op.apiKey
\* the auth fields of the credential the latest login obtained
NewCredential ==
    IF op.path = "pat"
    THEN [access_token |-> DecodeExchange(op.resp.obj).APIKey, refresh_token |-> "",
          token_expiry |-> DecodeExchange(op.resp.obj).ExpiresAt]
    ELSE [access_token |-> OfferedKey, refresh_token |-> "", token_expiry |-> ""]

(***************************************************************************)
(* C12: a PAT exchange answered with success = false is fatal: one         *)
(* request, an error with the server's code and message verbatim, and the  *)
(* stored access_token and token_expiry neither modified nor saved.        *)
(***************************************************************************)
C12_ExchangeFailureFatal ==
    (PatLogin /\ IsFailureEnvelope(op.resp)) =>
        /\ patReqs = 1
        /\ opErr = "PAT exchange failed: " \o op.resp.obj["error"]["code"] \o " - "
                       \o op.resp.obj["error"]["message"]
        /\ saves = 0
        /\ file = file0
        /\ cfg.AccessToken = Load(file0).AccessToken
        /\ cfg.TokenExpiry = Load(file0).TokenExpiry

\* a refused PAT on a machine that holds a key: the key is still there
C12_Witness ==
    /\ PatLogin
    /\ opErr = "PAT exchange failed: INVALID_PAT - GitHub PAT is not valid"
    /\ patReqs = 1
    /\ file.exists /\ JSONString(file.obj, "access_token") = "ak_old_key_1"

(***************************************************************************)
(* C13 as stated: after a successful login over a stored record every      *)
(* persisted auth field holds the new credential's value or is empty.      *)
(***************************************************************************)
C13_LoginOverwrites ==
    (op.name = "login" /\ opErr = NilErr /\ file0.exists /\ IsAuthenticated(Load(file0))) =>
        \A k \in AuthKeys : JSONString(file.obj, k) \in {NewCredential[k], ""}

(***************************************************************************)
(* C15: auth status reports Authenticated exactly when the stored          *)
(* access_token is non-empty, whatever the expiry and the other fields.    *)
(***************************************************************************)
C15_AuthenticatedIffToken ==
    (op.name = "status" /\ opErr = NilErr) =>
        /\ (shown = "authenticated") <=> (JSONString(file.obj, "access_token") /= "")
        /\ shown \in {"authenticated", "not authenticated"}

\* a key whose expiry lies in the past still reports authenticated
C15_Witness ==
    /\ op.name = "status"
    /\ shown = "authenticated"
    /\ JSONString(file.obj, "token_expiry") = FormatRFC3339(0)
    /\ now > 0

(***************************************************************************)
(* C17: a logout run right after a logout that succeeded, and able to      *)
(* write the file, succeeds and leaves the file exactly as it found it.    *)
(***************************************************************************)
C17_LogoutIdempotent ==
    (op.name = "logout" /\ op.ok /\ prevLogout) => (opErr = NilErr /\ file = file0)

\* two logouts in a row, the first of which had a stored record to clear
C17_Witness ==
    /\ op.name = "logout" /\ op.ok /\ prevLogout
    /\ opErr = NilErr
    /\ saves = 1
    /\ file.exists /\ JSONString(file.obj, "api_url") = OldConfig.APIURL

(***************************************************************************)
(* C18: after a logout that returned success every auth field of the       *)
(* persisted record is empty and a Load of it is not authenticated.        *)
(***************************************************************************)
C18_LogoutClears ==
    (op.name = "logout" /\ opErr = NilErr) =>
        /\ file.exists /\ LoadErr(file) = NilErr
        /\ \A k \in AuthKeys : JSONString(file.obj, k) = ""
        /\ ~IsAuthenticated(Load(file))

\* a logout that found a key, a refresh token and an expiry
C18_Witness ==
    /\ op.name = "logout" /\ opErr = NilErr
    /\ file0.exists
    /\ \A k \in AuthKeys : JSONString(file0.obj, k) /= ""
    /\ ~prevLogout

(***************************************************************************)
(* C19 as stated: after a login or logout run without --api-url the        *)
(* persisted api_url is the one that was persisted before the command.     *)
(***************************************************************************)
C19_APIURLKept ==
    (/\ opErr = NilErr
     /\ op.name = "logout" \/ (op.name = "login" /\ ~op.urlGiven)
     /\ file0.exists /\ "api_url" \in DOMAIN file0.obj) =>
        JSONString(file.obj, "api_url") = file0.obj["api_url"]

(***************************************************************************)
(* C20 as stated: a login run with no PAT (flag or GITHUB_PAT) and no      *)
(* --api-key sends a device-code request.                                  *)
(***************************************************************************)
C20_LoginStartsDeviceFlow ==
    (op.name = "login" /\ op.path /= "none"
     /\ op.patFlag = "" /\ op.patEnv = "" /\ op.apiKey = "") => devReqs >= 1

(***************************************************************************)
(* C11 as stated: the PAT exchange called with an empty PAT returns an     *)
(* error and sends no request to /auth/pat/exchange.                       *)
(***************************************************************************)
C11_EmptyPATFailsLocally ==
    (op.name = "exchange" /\ op.pat = "") => (opErr /= NilErr /\ patReqs = 0)

(***************************************************************************)
(* C14 as stated: whenever the config file does not exist, Load returns    *)
(* without error a record with empty auth fields that is not               *)
(* authenticated, whatever the process did before.                         *)
(***************************************************************************)
C14_LoadWithoutFileIsEmpty ==
    (op.name = "load" /\ ~file.exists) =>
        /\ opErr = NilErr
        /\ cfg.AccessToken = "" /\ cfg.RefreshToken = "" /\ cfg.TokenExpiry = ""
        /\ ~IsAuthenticated(cfg)

HasSuffix(s, suf) == Len(s) >= Len(suf) /\ SubSeq(s, Len(s) - Len(suf) + 1, Len(s)) = suf

(***************************************************************************)
(* C21 as stated: formatExpiryDate marks every instant strictly before the *)
(* current time with "(EXPIRED)".                                          *)
(***************************************************************************)
C21_PastIsExpired ==
    (op.name = "format" /\ op.valid /\ op.t < now) => HasSuffix(expiryShown, "(EXPIRED)")

(***************************************************************************)
(* C22: formatExpiryDate writes "(expires today)" for the current instant  *)
(* and "(1 day from now)" for the instant 24 hours later.                  *)
(***************************************************************************)
C22_TodayAndTomorrow ==
    (op.name = "format" /\ op.valid) =>
        /\ op.t = now => expiryShown = FormatLayout(now) \o " (expires today)"
        /\ op.t = now + 24 * 3600 =>
               expiryShown = FormatLayout(now + 24 * 3600) \o " (1 day from now)"

\* the instant 24 hours ahead was formatted
C22_Witness ==
    /\ op.name = "format" /\ op.valid /\ op.t = now + 24 * 3600
    /\ HasSuffix(expiryShown, "(1 day from now)")

\* the text starts with the prefix
HasPrefix(s, pre) == Len(s) >= Len(pre) /\ SubSeq(s, 1, Len(pre)) = pre
\* a login has ended, and the error it returned
LoginEnded == pc = "done" \/ (pc = "cli" /\ op.name = "login")
LoginErr == IF pc = "done" THEN flowErr ELSE opErr
\* the error every login path returns when Config.Save fails
SaveFailed == HasPrefix(LoginErr, "failed to save config: ")

(***************************************************************************)
(* C23: a login that fails for one of the reasons before the save (device  *)
(* code request, poll, parse, PAT exchange, missing or malformed API key)  *)
(* has not called Save and leaves the file as it was; while a device flow  *)
(* is under way nothing is saved; Save is called at most once.             *)
(***************************************************************************)
C23_FailedLoginSavesNothing ==
    /\ (LoginEnded /\ LoginErr /= NilErr /\ ~SaveFailed) =>
           (saveCalls = 0 /\ saves = 0 /\ file = file0)
    /\ pc \in {"start", "waiting", "checking", "polled"} => (saveCalls = 0 /\ file = file0)
    /\ LoginEnded => (saveCalls <= 1 /\ (saveCalls = 0 => file = file0))

\* a malformed API key offered on a machine that holds a record
C23_Witness ==
    /\ pc = "cli" /\ op.name = "login"
    /\ opErr = "invalid API key format"
    /\ saveCalls = 0
    /\ file.exists /\ JSONString(file.obj, "access_token") = "ak_old_key_1"

\* the device-code request was answered with 200 and a body that parses
DeviceSucceeded(resp) == resp.transport /\ resp.status = 200 /\ resp.json

(***************************************************************************)
(* C24: in a device-flow login a token check is sent only after the one    *)
(* device-code request has succeeded, each token check carries the         *)
(* device_code of that answer, and Save is called only after pollForToken  *)
(* has returned a token.                                                   *)
(***************************************************************************)
C24_StepsOrdered ==
    /\ tokenReqs > 0 =>
          /\ devReqs = 1
          /\ DeviceSucceeded(lastDevResp)
          /\ lastReq = [device_code |-> lastDevResp.obj["device_code"]]
    /\ pc \in {"waiting", "checking", "polled"} => (devReqs = 1 /\ DeviceSucceeded(lastDevResp))
    /\ saveCalls > 0 => (tokenReqs > 0 /\ PollSucceeded /\ pc = "done")

\* a flow that polled twice with the code of its device-code answer and then saved
C24_Witness ==
    /\ pc = "done" /\ flowErr = NilErr
    /\ saveCalls = 1
    /\ tokenReqs >= 2
    /\ lastReq = [device_code |-> "dc-2"]
    /\ deviceResp.Interval = 2

(***************************************************************************)
(* C25: while pollForToken waits and checks, whatever the responses, the   *)
(* interval stays the one it was given and the ticker's ticks fall due on  *)
(* the grid start + k * interval; a tick that is not already buffered is   *)
(* received at its due time and the next falls due one interval later.     *)
(***************************************************************************)
C25_PeriodFixed ==
    [][(pc = "waiting" \/ pc = "checking") =>
          (/\ deviceResp' = deviceResp
           /\ pollStart' = pollStart
           /\ pc' \in {"waiting", "checking"} =>
                 (/\ (tickNext' - pollStart) % Interval = 0
                  /\ tickNext' >= tickNext
                  /\ (pc = "waiting" /\ ~tickFull) =>
                         (now' = tickNext /\ tickNext' = tickNext + Interval)))
      ]_vars

\* after two retriable answers, the latest a slow_down, the ticker is still on its grid
C25_Witness ==
    /\ pc = "waiting"
    /\ retriables >= 2
    /\ RespError(lastResp) = "slow_down"
    /\ Interval = 2
    /\ tickNext = pollStart + 3 * Interval
    /\ ~tickFull

(***************************************************************************)
(* C26: a login takes one credential path: the --github-pat flag, else     *)
(* GITHUB_PAT, else the --api-key flag, else the prompt.  With a PAT the   *)
(* exchange is sent with that PAT and what is saved is the exchanged key,  *)
(* not a supplied --api-key; without a PAT no exchange is sent; never a    *)
(* device-code request.                                                    *)
(***************************************************************************)
C26_CredentialPrecedence ==
    (op.name = "login" /\ op.path /= "none") =>
        /\ devReqs = 0 /\ tokenReqs = 0
        /\ saveCalls <= 1
        /\ op.patFlag /= "" =>
              (op.path = "pat" /\ patReqs = 1 /\ lastReq = [github_pat |-> op.patFlag])
        /\ (op.patFlag = "" /\ op.patEnv /= "") =>
              (op.path = "pat" /\ patReqs = 1 /\ lastReq = [github_pat |-> op.patEnv])
        /\ (op.path = "pat" /\ saves = 1) =>
              JSONString(file.obj, "access_token") = JSONNested(op.resp.obj, "data", "api_key")
        /\ (op.patFlag = "" /\ op.patEnv = "") =>
              /\ op.path = "key" /\ patReqs = 0 /\ lastReq = EmptyObj
              /\ saves = 1 =>
                    JSONString(file.obj, "access_token") =
                        (IF op.apiKey /= "" THEN op.apiKey ELSE op.typed)

\* flag, environment variable and --api-key all given: the flag's PAT was exchanged
C26_Witness ==
    /\ op.name = "login" /\ opErr = NilErr
    /\ op.patFlag = "ghp_flag" /\ op.patEnv = "ghp_env" /\ op.apiKey = "ak_new_key_2"
    /\ lastReq = [github_pat |-> "ghp_flag"]
    /\ JSONString(file.obj, "access_token") = "ak_from_pat_9"

\* both invocations have ended
RaceDone == pc = "race" /\ \A p \in Procs : procs[p].at = "done"
\* the file after the two commands run one after the other, a first
SerialFile(a, b) == RunCommand(procs[b].cmd, RunCommand(procs[a].cmd, file0).file).file

(***************************************************************************)
(* C27: what an invocation writes is computed from the file as it was when *)
(* that invocation loaded it, whatever the file holds at the time of the   *)
(* write: a logout writes no auth field; a login writes its new key        *)
(* together with the refresh token (and, for an API-key login, the expiry) *)
(* it loaded.  Two concurrent invocations can therefore end with a file    *)
(* that neither serial order produces (the state C27_Witness).             *)
(***************************************************************************)
C27_StaleWrite ==
    (pc = "race" /\ op.name = "write") =>
        LET w == procs[op.p]
        IN /\ file.exists /\ file.json
           /\ w.cmd.name = "logout" => \A k \in AuthKeys : k \notin DOMAIN file.obj
           /\ w.cmd.name = "login" =>
                 /\ JSONString(file.obj, "refresh_token") =
                        JSONString(w.loaded.obj, "refresh_token")
                 /\ JSONString(file.obj, "api_url") = FlagDefaultAPIURL
                 /\ w.cmd.pat = "" =>
                       /\ JSONString(file.obj, "access_token") = w.cmd.key
                       /\ JSONString(file.obj, "token_expiry") =
                              JSONString(w.loaded.obj, "token_expiry")
                 /\ w.cmd.pat /= "" =>
                       /\ JSONString(file.obj, "access_token") = "ak_from_pat_9"
                       /\ JSONString(file.obj, "token_expiry") = "T3700Z"

\* a logout and a login both succeeded, and the file is that of neither serial
\* order: it holds the refresh token the logout had removed
C27_Witness ==
    /\ RaceDone
    /\ \A p \in Procs : procs[p].err = NilErr
    /\ procs[1].cmd.name = "logout" /\ procs[2].cmd.name = "login"
    /\ file /= SerialFile(1, 2) /\ file /= SerialFile(2, 1)
    /\ JSONString(file.obj, "refresh_token") = "ref-old"
    /\ JSONString(file.obj, "access_token") = RaceKey

(***************************************************************************)
(* C28 as stated: whenever a login reports success the persisted record    *)
(* has a non-empty access_token and a Load of it is authenticated.         *)
(***************************************************************************)
C28_SuccessIsAuthenticated ==
    (LoginEnded /\ LoginErr = NilErr) =>
        /\ JSONString(file.obj, "access_token") /= ""
        /\ IsAuthenticated(Load(file))

(***************************************************************************)
(* C29 as stated: for every device-code answer that is accepted the        *)
(* device-flow login never aborts abnormally.                              *)
(***************************************************************************)
C29_NoCrash == pc /= "panic"


\* C30: a command that gates on authentication sends no request and fails with the
\* not-authenticated error when the stored access_token is empty; a request sent through
\* the API client carries Authorization: Bearer <stored access_token>, and has no
\* Authorization header exactly when the stored token is empty.
APIDone == pc = "api" /\ op.name /= "none" /\ LoadErr(file) = NilErr
StoredToken == JSONString(file.obj, "access_token")

C30_GateAndBearer ==
    APIDone =>
        /\ (op.gated /\ StoredToken = "") => (~apiReq.sent /\ opErr = ErrNotAuthenticated)
        /\ apiReq.sent =>
              /\ ("Authorization" \in DOMAIN apiReq.headers) <=> (StoredToken /= "")
              /\ (StoredToken /= "") =>
                     apiReq.headers["Authorization"] = "Bearer " \o StoredToken

C30_Witness ==
    /\ APIDone /\ op.name = "cache stats" /\ apiReq.sent
    /\ apiReq.headers["Authorization"] = "Bearer ak_old_key_1"
    /\ opErr = NilErr

====
